---- MODULE Spec2Model ----
(***************************************************************************)
(* Meeting lifecycle of the desktop recording orchestrator (src/src/main.js). *)
(*                                                                         *)
(* The main process is a single event loop.  Every handler runs from one   *)
(* await to the next without interruption; the model has one action per    *)
(* handler entry and one per resumption after an await.  The handlers are  *)
(* written as operators from a state record to a state record, in the      *)
(* order of the statements of the source, and an action commits the        *)
(* record its handler returns.                                             *)
(***************************************************************************)
EXTENDS Integers, Sequences, FiniteSets, TLC

\* ------------------------------------------------------------ bounds
MaxProcs == 2          \* handlers that can be suspended at an await at once
MaxTicks == 1          \* clock advances
TickMs == 15000         \* milliseconds per clock advance
MaxLog == 2            \* engine start calls counted by the ghost (saturating)

\* ------------------------------------------------------------ program constants
ThrottleMs == 15000    \* registerCurrentMeetingUrlIfNeeded: 15_000
ForbiddenStatus == 403 \* showUploadTokenErrorDialog: status === 403

\* ------------------------------------------------------------ value sets
NULL == "null"                       \* JavaScript null / undefined in a string field
NoWindow == 0                        \* a missing window id (falsy)
Windows == {1, 2}
Platforms == {"zoom", "slack"}
Urls == {"urlA", "urlB"}
Tokens == {"tok1", "tok2"}
RecordingIds == {"r1"}
SdkUploadIds == {"s1"}
Procs == 1..MaxProcs

\* currentMeetingInfo = null
Null == [isNull |-> TRUE]

VARIABLES
    isRecording,                \* main.js:82
    isPaused,                   \* main.js:83
    currentMeetingInfo,         \* main.js:89
    userWantsToRecord,          \* main.js:90
    recordingStarted,           \* main.js:91
    suppressedMeetingWindowIds, \* main.js:175
    meetingPopupWindow,         \* main.js:86, TRUE while the consent popup exists
    popupCloseTimer,            \* a pending setTimeout(closeMeetingPopup, 100)
    trayMenu,                   \* the menu last built by refreshTrayMenu
    loginInFlight,              \* main.js:79, TRUE while the login promise is pending
    loginPrompts,               \* the calls of login(loginOpts) that have not settled
    tokenStore,                 \* the stored tokens read by getStoredAccessToken
    authReply,                  \* what the last settled auth:* invoke gave the renderer
    clock,                      \* Date.now()
    procs,                      \* the handlers suspended at an await
    ghost                       \* history of the calls made to the collaborators

vars == <<isRecording, isPaused, currentMeetingInfo, userWantsToRecord,
          recordingStarted, suppressedMeetingWindowIds, meetingPopupWindow,
          popupCloseTimer, trayMenu, loginInFlight, loginPrompts, tokenStore,
          authReply, clock, procs, ghost>>

\* The state as one record, so that a handler is a function of it.
State ==
    [isRecording |-> isRecording, isPaused |-> isPaused,
     info |-> currentMeetingInfo, userWantsToRecord |-> userWantsToRecord,
     recordingStarted |-> recordingStarted,
     suppressed |-> suppressedMeetingWindowIds,
     popup |-> meetingPopupWindow, popupCloseTimer |-> popupCloseTimer,
     trayMenu |-> trayMenu, loginInFlight |-> loginInFlight,
     loginPrompts |-> loginPrompts,
     tokenStore |-> tokenStore, authReply |-> authReply,
     clock |-> clock, procs |-> procs,
     ghost |-> ghost]

Commit(s) ==
    /\ isRecording' = s.isRecording
    /\ isPaused' = s.isPaused
    /\ currentMeetingInfo' = s.info
    /\ userWantsToRecord' = s.userWantsToRecord
    /\ recordingStarted' = s.recordingStarted
    /\ suppressedMeetingWindowIds' = s.suppressed
    /\ meetingPopupWindow' = s.popup
    /\ popupCloseTimer' = s.popupCloseTimer
    /\ trayMenu' = s.trayMenu
    /\ loginInFlight' = s.loginInFlight
    /\ loginPrompts' = s.loginPrompts
    /\ tokenStore' = s.tokenStore
    /\ authReply' = s.authReply
    /\ clock' = s.clock
    /\ procs' = s.procs
    /\ ghost' = s.ghost

\* ------------------------------------------------------------ suspended handlers
\* kind: the handler; src: the surface that invoked it; pc: the await it is
\* suspended at; the other fields are its local variables.
NoProc ==
    [kind |-> "none", src |-> "none", pc |-> "none", url |-> NULL, now |-> 0,
     windowId |-> NoWindow, uploadToken |-> NULL, dialog |-> "none",
     accessToken |-> FALSE]

\* no auth:* invoke has settled yet
NoReply == [channel |-> "none", result |-> "none"]

IsFree(s, p) == s.procs[p].kind = "none"
HasFree(s) == \E p \in Procs : IsFree(s, p)
FreeProc(s) == CHOOSE p \in Procs : IsFree(s, p) /\ \A q \in Procs : IsFree(s, q) => p <= q

Suspend(s, p, rec) == [s EXCEPT !.procs[p] = rec]
Finish(s, p) == [s EXCEPT !.procs[p] = NoProc]

\* ------------------------------------------------------------ ghost state
\* ghost records what the environment did and what the program called; no
\* handler reads it.
\*   fetching the handlers whose getUploadToken call was issued while the
\*            current session object was current and is not yet answered
\*   declined the windows whose prompt the user declined, with no idle report
\*            and no recording-ended event of the engine since
\*   hist     the events of the run so far, while the run is a prefix of one
\*            of the Scenarios; Off afterwards
\*   calls    the engine startRecording calls made while hist is not Off
\*   c1       the engine startRecording calls made for window c1.w, while the
\*            run consists only of meeting-detected, meeting-updated, confirm
\*            and decline events of that window and no external call failed;
\*            C1Off afterwards

Ev(name, w, arg) == [name |-> name, w |-> w, arg |-> arg]
Off == <<Ev("off", NoWindow, "")>>
C1Off == [n |-> -1, w |-> NoWindow]

\* the runs that the scenario claims are about
ScenarioStart(w, tok) ==
    <<Ev("detect", w, "zoom"), Ev("confirm", NoWindow, "popup"),
      Ev("fetchOk", NoWindow, tok), Ev("startAnswer", NoWindow, "ok")>>
ScenarioRecording(w, tok) ==
    ScenarioStart(w, tok) \o <<Ev("sdk", NoWindow, "recording")>>
ScenarioStop(w, tok, src, outcome) ==
    ScenarioStart(w, tok) \o <<Ev("stop", NoWindow, src),
                               Ev("stopAnswer", NoWindow, outcome)>>
ScenarioStopIdle(w, tok, src) ==
    ScenarioStop(w, tok, src, "ok") \o <<Ev("sdk", NoWindow, "idle")>>
ScenarioStopEnded(w, tok, src) ==
    ScenarioStop(w, tok, src, "ok") \o <<Ev("ended", w, "")>>
ScenarioSlack(w) == <<Ev("detect", w, "slack")>>
ConfirmSurfaces == {"popup", "tray"}
FetchFailures == {"403", "500", "none", "noToken"}
ScenarioFetchFails(w, src, how) ==
    <<Ev("detect", w, "zoom"), Ev("confirm", NoWindow, src),
      Ev("fetchFail", NoWindow, how), Ev("dialogClosed", NoWindow, "")>>
ScenarioDecline(w) ==
    <<Ev("detect", w, "zoom"), Ev("decline", NoWindow, "")>>
ScenarioDeclineDetect(w) ==
    ScenarioDecline(w) \o <<Ev("detect", w, "zoom")>>
ScenarioDeclineIdleDetect(w) ==
    ScenarioDecline(w) \o <<Ev("sdk", NoWindow, "idle"), Ev("detect", w, "zoom")>>
ScenarioDeclineEndedDetect(w) ==
    ScenarioDecline(w) \o <<Ev("ended", w, ""), Ev("detect", w, "zoom")>>
ScenarioRedetect(w, src) ==
    <<Ev("detect", w, "zoom"), Ev("confirm", NoWindow, src), Ev("detect", w, "zoom")>>
ScenarioConfirmUpdated(w, src, u) ==
    <<Ev("detect", w, "zoom"), Ev("confirm", NoWindow, src), Ev("updated", w, u)>>
ScenarioUpdatedThenFetch(w, src, u, tok) ==
    ScenarioConfirmUpdated(w, src, u) \o <<Ev("fetchOk", NoWindow, tok)>>
ScenarioPausedIdle(w, tok) ==
    ScenarioRecording(w, tok) \o <<Ev("togglePause", NoWindow, "tray"),
                                   Ev("pauseAnswer", NoWindow, "ok"),
                                   Ev("sdk", NoWindow, "idle")>>
ScenarioStartFails(w, src, tok) ==
    <<Ev("detect", w, "zoom"), Ev("confirm", NoWindow, src),
      Ev("fetchOk", NoWindow, tok), Ev("startAnswer", NoWindow, "fail")>>
ScenarioStartRetry(w, src, tok) ==
    ScenarioStartFails(w, src, tok) \o <<Ev("confirm", NoWindow, "tray")>>
ScenarioUrlThenStart(w, u, tok) ==
    <<Ev("detect", w, "zoom"), Ev("updated", w, u), Ev("confirm", NoWindow, "popup"),
      Ev("fetchOk", NoWindow, tok)>>
ScenarioDeclineInFlight(w, src, tok) ==
    ScenarioRedetect(w, src) \o <<Ev("decline", NoWindow, ""), Ev("fetchOk", NoWindow, tok),
                                  Ev("startAnswer", NoWindow, "ok")>>
ScenarioFailedConfirmReplaced(w, w2) ==
    <<Ev("detect", w, "zoom"), Ev("confirm", NoWindow, "popup"), Ev("detect", w2, "zoom"),
      Ev("fetchFail", NoWindow, "500"), Ev("dialogClosed", NoWindow, "")>>
ScenarioStopReplaced(w, w2, src) ==
    ScenarioStart(w, "tok1") \o <<Ev("stop", NoWindow, src), Ev("sdk", NoWindow, "idle"),
                                  Ev("detect", w2, "zoom"), Ev("stopAnswer", NoWindow, "ok")>>
ScenarioLoginRetry(w) ==
    <<Ev("detect", w, "zoom"), Ev("confirm", NoWindow, "tray"), Ev("authFail", NoWindow, "null"),
      Ev("confirm", NoWindow, "tray")>>
ScenarioEndedConfirm(w) ==
    <<Ev("detect", w, "zoom"), Ev("ended", w, ""), Ev("confirm", NoWindow, "popup")>>

StopSurfaces == {"tray", "popup", "debug"}
StopOutcomes == {"ok", "alreadyEnded", "error"}

Scenarios ==
    {ScenarioRecording(w, tok) : w \in Windows, tok \in Tokens}
    \cup {ScenarioPausedIdle(w, "tok1") : w \in Windows}
    \cup {ScenarioEndedConfirm(w) : w \in Windows}
    \cup {ScenarioLoginRetry(w) : w \in Windows}
    \cup {ScenarioFailedConfirmReplaced(w, w2) : w, w2 \in Windows}
    \cup {ScenarioStopReplaced(w, w2, src) : w, w2 \in Windows, src \in {"tray", "popup"}}
    \cup {ScenarioDeclineInFlight(w, src, "tok1") : w \in Windows, src \in ConfirmSurfaces}
    \cup {ScenarioUrlThenStart(w, "urlA", "tok1") : w \in Windows}
    \cup {ScenarioStartRetry(w, src, "tok1") : w \in Windows, src \in ConfirmSurfaces}
    \cup {ScenarioStop(w, "tok1", src, o) : w \in Windows, src \in StopSurfaces,
                                            o \in StopOutcomes}
    \cup {ScenarioStopIdle(w, "tok1", src) : w \in Windows, src \in StopSurfaces}
    \cup {ScenarioStopEnded(w, "tok1", src) : w \in Windows, src \in StopSurfaces}
    \cup {ScenarioSlack(w) : w \in Windows}
    \cup {ScenarioFetchFails(w, src, how) : w \in Windows, src \in ConfirmSurfaces,
                                            how \in FetchFailures}
    \cup {ScenarioDeclineDetect(w) : w \in Windows}
    \cup {ScenarioDeclineIdleDetect(w) : w \in Windows}
    \cup {ScenarioDeclineEndedDetect(w) : w \in Windows}
    \cup {ScenarioRedetect(w, src) : w \in Windows, src \in ConfirmSurfaces}
    \cup {ScenarioUpdatedThenFetch(w, src, u, "tok1") : w \in Windows,
                                                        src \in ConfirmSurfaces,
                                                        u \in Urls}

Prefixes == UNION {{SubSeq(sc, 1, k) : k \in 0..Len(sc)} : sc \in Scenarios}

\* the steps that belong to every scenario: the token store answers without
\* failing, the login succeeds, the registrar's requests are answered, the
\* clock advances
Silent == {"storedToken", "loginOk", "registerToken", "registerAnswer", "tick"}

\* the events that keep a run within the scope of c1
C1Events == Silent \cup {"detect", "updated", "confirm", "decline", "fetchOk"}

GhostInit ==
    [fetching |-> {}, declined |-> {}, hist |-> <<>>, calls |-> <<>>, c1 |-> [n |-> 0, w |-> NoWindow]]

\* the engine startRecording calls issued by the step from s0 to s1
NewStartCalls(s0, s1) ==
    {p \in Procs : s1.procs[p].pc = "engineStart" /\ s0.procs[p].pc # "engineStart"}

RECURSIVE CallSeq(_, _)
CallSeq(s1, ps) ==
    IF ps = {} THEN <<>>
    ELSE LET p == CHOOSE q \in ps : \A r \in ps : q <= r
         IN <<[windowId |-> s1.procs[p].windowId,
               uploadToken |-> s1.procs[p].uploadToken]>> \o CallSeq(s1, ps \ {p})

NextHist(hist, ev) ==
    IF hist = Off THEN Off
    ELSE IF ev.name \in Silent THEN hist
    ELSE IF Append(hist, ev) \in Prefixes THEN Append(hist, ev)
    ELSE Off

NextC1(c1, s0, s1, ev) ==
    LET inScope == /\ c1 # C1Off
                   /\ \/ ev.name \in C1Events
                      \/ ev.name = "startAnswer" /\ ev.arg = "ok"
                   /\ ev.w \in {NoWindow, c1.w} \/ c1.w = NoWindow
        w == IF c1.w = NoWindow THEN ev.w ELSE c1.w
        n == Cardinality({p \in NewStartCalls(s0, s1) : s1.procs[p].windowId = w})
    IN IF inScope THEN [n |-> IF c1.n + n > MaxLog THEN MaxLog ELSE c1.n + n, w |-> w]
       ELSE C1Off

NextDeclined(declined, s0, ev) ==
    IF ev.name = "decline"
    THEN IF s0.info = Null THEN declined ELSE declined \cup ({s0.info.windowId} \ {NoWindow})
    ELSE IF ev.name = "ended" \/ (ev.name = "sdk" /\ ev.arg = "idle") THEN {}
    ELSE declined

\* the state s1 that the handler of event ev made of s0, with the ghost updated
Track(s0, s1, ev) ==
    LET hist == NextHist(s0.ghost.hist, ev)
    IN [s1 EXCEPT !.ghost.fetching = {p \in @ : s1.procs[p].pc = "fetch"},
                  !.ghost.declined = NextDeclined(@, s0, ev),
                  !.ghost.hist = hist,
                  !.ghost.calls = IF hist = Off THEN <<>>
                                  ELSE s0.ghost.calls \o CallSeq(s1, NewStartCalls(s0, s1)),
                  !.ghost.c1 = NextC1(s0.ghost.c1, s0, s1, ev)]

\* the step of the program that handles event ev and leaves state s1
Step(s1, ev) == Commit(Track(State, s1, ev))

\* ------------------------------------------------------------ tray and capture state
\* buildTrayMenu: the items whose presence depends on the state.
buildTrayMenu(s) ==
    [canManualStart |-> (s.info # Null /\ ~s.isRecording /\ ~s.userWantsToRecord),
     recordingEnabled |-> s.isRecording]

refreshTrayMenu(s) == [s EXCEPT !.trayMenu = buildTrayMenu(s)]

setCaptureState(s, recording, paused) ==
    refreshTrayMenu([s EXCEPT !.isRecording = recording,
                              !.isPaused = IF recording THEN paused ELSE FALSE])

closeMeetingPopup(s) == [s EXCEPT !.popup = FALSE]

suppressMeetingPopupForWindow(s, windowId) ==
    IF windowId # NoWindow
    THEN [s EXCEPT !.suppressed = @ \cup {windowId}]
    ELSE s

clearMeetingPopupSuppression(s, windowId) ==
    IF windowId # NoWindow /\ windowId \in s.suppressed
    THEN [s EXCEPT !.suppressed = @ \ {windowId}]
    ELSE s

windowIdOf(s) == IF s.info = Null THEN NoWindow ELSE s.info.windowId

\* ------------------------------------------------------------ initial state
Init ==
    /\ isRecording = FALSE
    /\ isPaused = FALSE
    /\ currentMeetingInfo = Null
    /\ userWantsToRecord = FALSE
    /\ recordingStarted = FALSE
    /\ suppressedMeetingWindowIds = {}
    /\ meetingPopupWindow = FALSE
    /\ popupCloseTimer = FALSE
    /\ trayMenu = [canManualStart |-> FALSE, recordingEnabled |-> FALSE]
    /\ loginInFlight = FALSE
    /\ loginPrompts = 0
    /\ tokenStore \in {"valid", "expired", "none"}
    /\ authReply = NoReply
    /\ clock = ThrottleMs
    /\ procs = [p \in Procs |-> NoProc]
    /\ ghost = GhostInit

\* ------------------------------------------------------------ engine events
\* the object stored by the meeting-detected listener
NewMeetingInfo(windowId) ==
    [windowId |-> windowId, meetingUrl |-> NULL, uploadToken |-> NULL,
     recordingId |-> NULL, sdkUploadId |-> NULL,
     lastRegisteredMeetingUrl |-> NULL, lastRegisterAttemptUrl |-> NULL,
     lastRegisterAttemptAt |-> 0]

\* The session object is replaced or dropped.
SessionGone(s) == [s EXCEPT !.ghost.fetching = {}]

showMeetingPopup(s) ==
    [s EXCEPT !.popup = TRUE]

\* mutant of onMeetingDetected: the listener does not consult the suppression
\* set
onMeetingDetectedUnsuppressed(s, windowId, platform) ==
    IF platform = "slack" THEN s
    ELSE IF s.isRecording THEN s
    ELSE LET s1 == [s EXCEPT !.userWantsToRecord = FALSE, !.recordingStarted = FALSE]
             s2 == [SessionGone(s1) EXCEPT !.info = NewMeetingInfo(windowId)]
         IN refreshTrayMenu(showMeetingPopup(s2))

\* mutant of onMeetingDetected: the listener does not test the platform
onMeetingDetectedAnyPlatform(s, windowId, platform) ==
    IF windowId \in s.suppressed THEN s
    ELSE IF s.isRecording THEN s
    ELSE LET s1 == [s EXCEPT !.userWantsToRecord = FALSE, !.recordingStarted = FALSE]
             s2 == [SessionGone(s1) EXCEPT !.info = NewMeetingInfo(windowId)]
         IN refreshTrayMenu(showMeetingPopup(s2))

\* RecallAiSdk "meeting-detected" listener
onMeetingDetected(s, windowId, platform) ==
    IF windowId \in s.suppressed THEN s
    ELSE IF platform = "slack" THEN s
    ELSE IF s.isRecording THEN s
    ELSE LET s1 == [s EXCEPT !.userWantsToRecord = FALSE, !.recordingStarted = FALSE]
             s2 == [SessionGone(s1) EXCEPT !.info = NewMeetingInfo(windowId)]
         IN refreshTrayMenu(showMeetingPopup(s2))

MeetingDetected(windowId, platform) ==
    Step(onMeetingDetected(State, windowId, platform), Ev("detect", windowId, platform))

\* ------------------------------------------------------------ access token
\* getStoredAccessToken({allowRefresh: true}) (utils/auth.js): what it can
\* answer for each content of the token store.
StoredOutcomes(store) ==
    CASE store = "valid" -> {"token"}
      [] store = "expired" -> {"refreshed", "refreshFailed", "noRefreshToken"}
      [] OTHER -> {"null"}

\* the token store after getStoredAccessToken answered
storeAfter(store, outcome) ==
    CASE outcome = "refreshed" -> "valid"
      [] outcome = "refreshFailed" -> "none"      \* clearStoredTokens(), then throw
      [] OTHER -> store

\* what the caller of getStoredAccessToken sees
StoredResult(outcome) ==
    CASE outcome \in {"token", "refreshed"} -> "token"
      [] outcome = "refreshFailed" -> "throw"
      [] OTHER -> "null"

\* ------------------------------------------------------------ auth IPC
\* getStoredAccessToken({allowRefresh: false}): no refresh is attempted
StoredOutcomesNoRefresh(store) == IF store = "valid" THEN {"token"} ELSE {"null"}

\* ensureAccessToken({interactive: false}): what its caller sees.  The call
\* of getStoredAccessToken is not inside a try, so its throw goes through.
ensureAccessToken(outcome) == StoredResult(outcome)

\* an ipcMain.handle handler up to its first await
ipcInvoked(s, channel) ==
    Suspend(s, FreeProc(s), [NoProc EXCEPT !.kind = "ipc", !.src = channel, !.pc = "ipcToken"])

\* the handler returns or throws: the renderer's invoke resolves or rejects
ipcSettles(s, p, result) ==
    Finish([s EXCEPT !.authReply = [channel |-> s.procs[p].src, result |-> result]], p)

\* ipcMain.handle("auth:getAccessToken") after ensureAccessToken settled
authGetAccessToken(s, p, outcome) ==
    LET s1 == [s EXCEPT !.tokenStore = storeAfter(@, outcome)]
        res == ensureAccessToken(outcome)
    IN ipcSettles(s1, p, IF res = "throw" THEN "rejected" ELSE res)

\* ipcMain.handle("auth:isAuthenticated") after isAuthenticated() settled
authIsAuthenticated(s, p, outcome) ==
    ipcSettles(s, p, IF StoredResult(outcome) = "token" THEN "authenticated"
                     ELSE "notAuthenticated")

\* ipcMain.handle("auth:logout") after logout() settled
authLogout(s, p) == ipcSettles([s EXCEPT !.tokenStore = "none"], p, "ok")

AuthChannels == {"auth:getAccessToken", "auth:isAuthenticated", "auth:logout"}

AuthInvoke ==
    /\ HasFree(State)
    /\ \E channel \in AuthChannels : Step(ipcInvoked(State, channel), Ev("ipc", NoWindow, channel))

AuthGetAccessTokenAnswers(p) ==
    /\ procs[p].pc = "ipcToken" /\ procs[p].src = "auth:getAccessToken"
    /\ \E o \in StoredOutcomes(tokenStore) :
           Step(authGetAccessToken(State, p, o), Ev("ipcReply", NoWindow, o))

AuthIsAuthenticatedAnswers(p) ==
    /\ procs[p].pc = "ipcToken" /\ procs[p].src = "auth:isAuthenticated"
    /\ \E o \in StoredOutcomesNoRefresh(tokenStore) :
           Step(authIsAuthenticated(State, p, o), Ev("ipcReply", NoWindow, o))

AuthLogoutAnswers(p) ==
    /\ procs[p].pc = "ipcToken" /\ procs[p].src = "auth:logout"
    /\ Step(authLogout(State, p), Ev("ipcReply", NoWindow, "ok"))

\* Date.now() passes expires_at of the stored token
TokenExpires ==
    /\ tokenStore = "valid"
    /\ Step([State EXCEPT !.tokenStore = "expired"], Ev("tick", NoWindow, ""))

\* ------------------------------------------------------------ upload-token responses
\* The JSON body of POST /upload-token.  utKind tells what the key uploadToken
\* holds: nothing, a string (utStr) or an object (ut); detail is the text of
\* another key of the body.
NoNested == [upload_token |-> NULL, recording_id |-> NULL, sdk_upload_id |-> NULL]
Ids == [recording_id : RecordingIds \cup {NULL}, sdk_upload_id : SdkUploadIds \cup {NULL}]

NestedResponse(tok, ids) ==
    [utKind |-> "object", utStr |-> NULL,
     ut |-> [upload_token |-> tok, recording_id |-> ids.recording_id,
             sdk_upload_id |-> ids.sdk_upload_id],
     upload_token |-> NULL, recording_id |-> NULL, sdk_upload_id |-> NULL,
     detail |-> NULL]
FlatResponse(tok, ids) ==
    [utKind |-> "absent", utStr |-> NULL, ut |-> NoNested,
     upload_token |-> tok, recording_id |-> ids.recording_id,
     sdk_upload_id |-> ids.sdk_upload_id, detail |-> NULL]
StringResponse(tok) ==
    [utKind |-> "string", utStr |-> tok, ut |-> NoNested,
     upload_token |-> NULL, recording_id |-> NULL, sdk_upload_id |-> NULL,
     detail |-> NULL]
EmptyResponse ==
    [utKind |-> "absent", utStr |-> NULL, ut |-> NoNested,
     upload_token |-> NULL, recording_id |-> NULL, sdk_upload_id |-> NULL,
     detail |-> NULL]
\* a body without a token whose other key holds a text with a status in
\* parentheses, such as {"error": "Forbidden (403)"}
DetailResponse == [EmptyResponse EXCEPT !.detail = "(403)"]

\* the body of the given shape that carries token tok and identifiers ids
Shapes == {"nested", "flat", "string", "empty", "detail"}
Response(shape, tok, ids) ==
    CASE shape = "nested" -> NestedResponse(tok, ids)
      [] shape = "flat" -> FlatResponse(tok, ids)
      [] shape = "string" -> StringResponse(tok)
      [] shape = "empty" -> EmptyResponse
      [] shape = "detail" -> DetailResponse

AllIds == [recording_id |-> "r1", sdk_upload_id |-> "s1"]
NoIds == [recording_id |-> NULL, sdk_upload_id |-> NULL]

\* HTTP status of a failed request; 0 is a failure with no status (network)
FetchErrors == {ForbiddenStatus, 500, 0}
StatusText(status) ==
    CASE status = ForbiddenStatus -> "403"
      [] status = 500 -> "500"
      [] OTHER -> "none"

\* Error messages are sequences of words; a word of three digits in
\* parentheses is what /\((\d{3})\)/ matches.
StatusWord(status) == "(" \o StatusText(status) \o ")"
StatusWords == {StatusWord(ForbiddenStatus), StatusWord(500)}
StatusOfWord(word) == IF word = StatusWord(ForbiddenStatus) THEN ForbiddenStatus ELSE 500

\* the bodies of a failed response
ErrorBodies == {<<>>, <<"(403)">>}

\* Api.getUploadToken throws (utils/api.js): the response is not ok, or fetch
\* itself failed (status 0).  The error has no status property.
getUploadTokenError(status, body) ==
    [hasStatus |-> FALSE, status |-> 0,
     message |-> IF status = 0 THEN <<"fetch failed">>
                 ELSE <<"Failed to get upload token", StatusWord(status)>> \o body]

\* JSON.stringify(uploadTokenData), as far as it can hold a status word
stringify(data) == IF data.detail = NULL THEN <<>> ELSE <<data.detail>>

\* getUploadTokenAndStoreInfo: the error for a body without a token
noUploadTokenError(data) ==
    [hasStatus |-> FALSE, status |-> 0,
     message |-> <<"Upload token not found in response:">> \o stringify(data)]

\* showUploadTokenErrorDialog: error.status when it is a number, else the
\* first match of /\((\d{3})\)/ in the message, else null (0 here)
errorStatus(error) ==
    IF error.hasStatus THEN error.status
    ELSE LET hits == {i \in 1..Len(error.message) : error.message[i] \in StatusWords}
         IN IF hits = {} THEN 0
            ELSE StatusOfWord(error.message[CHOOSE i \in hits : \A j \in hits : i <= j])

\* showUploadTokenErrorDialog: the message of the dialog
dialogMessage(error) ==
    IF errorStatus(error) = ForbiddenStatus THEN "forbidden" ELSE "generic"

\* getUploadTokenAndStoreInfo, lines 1788-1799
extractUploadToken(data) ==
    IF data.utKind = "object" /\ data.ut.upload_token # NULL THEN data.ut.upload_token
    ELSE IF data.upload_token # NULL THEN data.upload_token
    ELSE IF data.utKind = "string" THEN data.utStr
    ELSE NULL

\* line 1812
extractRecordingId(data) ==
    IF data.utKind = "object" THEN data.ut.recording_id ELSE NULL

\* lines 1819-1824
extractSdkUploadId(data) ==
    IF data.utKind = "object" /\ data.ut.sdk_upload_id # NULL THEN data.ut.sdk_upload_id
    ELSE data.sdk_upload_id

\* ------------------------------------------------------------ start sequence
\* catch of startMeetingRecordingWithAuth, then the catch of its caller: the
\* popup handler also drops the session, the tray click only logs.
startWithAuthCatch(s, p) ==
    LET s1 == refreshTrayMenu([s EXCEPT !.userWantsToRecord = FALSE,
                                        !.recordingStarted = FALSE])
        s2 == IF s.procs[p].src = "popup"
              THEN refreshTrayMenu(
                       [SessionGone([s1 EXCEPT !.userWantsToRecord = FALSE,
                                               !.recordingStarted = FALSE])
                        EXCEPT !.info = Null])
              ELSE s1
    IN Finish(s2, p)

\* mutant of startMeetingRecording: the call carries no upload token
startMeetingRecordingWithoutToken(s, p) ==
    IF s.info = Null THEN startWithAuthCatch(s, p)
    ELSE IF s.recordingStarted THEN Finish(s, p)
    ELSE IF s.info.uploadToken = NULL THEN startWithAuthCatch(s, p)
    ELSE LET s1 == [s EXCEPT !.recordingStarted = TRUE]
         IN Suspend(s1, p, [s.procs[p] EXCEPT !.pc = "engineStart",
                                              !.windowId = s.info.windowId,
                                              !.uploadToken = NULL])

\* startMeetingRecording up to its await of RecallAiSdk.startRecording
startMeetingRecording(s, p) ==
    IF s.info = Null THEN startWithAuthCatch(s, p)
    ELSE IF s.recordingStarted THEN Finish(s, p)
    ELSE IF s.info.uploadToken = NULL THEN startWithAuthCatch(s, p)
    ELSE LET s1 == [s EXCEPT !.recordingStarted = TRUE]
         IN Suspend(s1, p, [s.procs[p] EXCEPT !.pc = "engineStart",
                                              !.windowId = s.info.windowId,
                                              !.uploadToken = s.info.uploadToken])

\* startMeetingRecording after RecallAiSdk.startRecording settled
startMeetingRecordingResumed(s, p, ok) ==
    IF ok
    THEN Finish(setCaptureState(s, TRUE, FALSE), p)
    ELSE startWithAuthCatch([s EXCEPT !.recordingStarted = FALSE], p)

\* registerCurrentMeetingUrlIfNeeded has returned to its caller: the start
\* sequence goes on to startMeetingRecording, the meeting-updated listener ends.
registerReturns(s, p) ==
    IF s.procs[p].kind = "start" THEN startMeetingRecording(s, p) ELSE Finish(s, p)

\* mutant of registerCurrentMeetingUrlIfNeeded: an attempt made less than
\* ThrottleMs ago throttles the invocation whatever URL was attempted
registerCurrentMeetingUrlIfNeededAnyUrl(s, p) ==
    IF s.info = Null THEN registerReturns(s, p)
    ELSE LET meetingUrl == s.info.meetingUrl
             now == s.clock
             alreadyRegistered == s.info.lastRegisteredMeetingUrl = meetingUrl
             recentlyAttempted ==
                 /\ s.info.lastRegisterAttemptUrl # NULL
                 /\ now - s.info.lastRegisterAttemptAt < ThrottleMs
         IN IF meetingUrl = NULL THEN registerReturns(s, p)
            ELSE IF alreadyRegistered THEN registerReturns(s, p)
            ELSE IF recentlyAttempted THEN registerReturns(s, p)
            ELSE Suspend(s, p, [s.procs[p] EXCEPT !.pc = "regToken",
                                                  !.url = meetingUrl, !.now = now])

\* registerCurrentMeetingUrlIfNeeded up to its await of ensureAccessToken
registerCurrentMeetingUrlIfNeeded(s, p) ==
    IF s.info = Null THEN registerReturns(s, p)
    ELSE LET meetingUrl == s.info.meetingUrl
             now == s.clock
             alreadyRegistered == s.info.lastRegisteredMeetingUrl = meetingUrl
             recentlyAttemptedSameUrl ==
                 /\ s.info.lastRegisterAttemptUrl = meetingUrl
                 /\ now - s.info.lastRegisterAttemptAt < ThrottleMs
         IN IF meetingUrl = NULL THEN registerReturns(s, p)
            ELSE IF alreadyRegistered THEN registerReturns(s, p)
            ELSE IF recentlyAttemptedSameUrl THEN registerReturns(s, p)
            ELSE Suspend(s, p, [s.procs[p] EXCEPT !.pc = "regToken",
                                                  !.url = meetingUrl, !.now = now])

\* mutant of registerAfterToken: the identifiers are not tested
registerAfterTokenUnchecked(s, p, outcome) ==
    LET s1 == [s EXCEPT !.tokenStore = storeAfter(@, outcome)]
        res == StoredResult(outcome)
    IN IF res # "token" THEN registerReturns(s1, p)
       ELSE IF s1.info = Null THEN registerReturns(s1, p)
       ELSE LET s2 == [s1 EXCEPT !.info.lastRegisterAttemptUrl = s.procs[p].url,
                                 !.info.lastRegisterAttemptAt = s.procs[p].now]
            IN Suspend(s2, p, [s.procs[p] EXCEPT !.pc = "regCall"])

\* mutant of registerAfterToken: the attempt is recorded before the access
\* token is tested
registerAfterTokenAttemptFirst(s, p, outcome) ==
    LET s1 == [s EXCEPT !.tokenStore = storeAfter(@, outcome)]
        res == StoredResult(outcome)
        s2 == IF s1.info = Null THEN s1
              ELSE [s1 EXCEPT !.info.lastRegisterAttemptUrl = s.procs[p].url,
                              !.info.lastRegisterAttemptAt = s.procs[p].now]
    IN IF res # "token" THEN registerReturns(s2, p)
       ELSE IF s1.info = Null THEN registerReturns(s1, p)
       ELSE IF s1.info.recordingId = NULL \/ s1.info.sdkUploadId = NULL
            THEN registerReturns(s1, p)
       ELSE Suspend(s2, p, [s.procs[p] EXCEPT !.pc = "regCall"])

\* mutant of registerAfterToken: the attempt is recorded before the
\* identifiers are tested
registerAfterTokenAttemptBeforeIds(s, p, outcome) ==
    LET s1 == [s EXCEPT !.tokenStore = storeAfter(@, outcome)]
        res == StoredResult(outcome)
    IN IF res # "token" THEN registerReturns(s1, p)
       ELSE IF s1.info = Null THEN registerReturns(s1, p)
       ELSE LET s2 == [s1 EXCEPT !.info.lastRegisterAttemptUrl = s.procs[p].url,
                                 !.info.lastRegisterAttemptAt = s.procs[p].now]
            IN IF s1.info.recordingId = NULL \/ s1.info.sdkUploadId = NULL
               THEN registerReturns(s2, p)
               ELSE Suspend(s2, p, [s.procs[p] EXCEPT !.pc = "regCall"])

\* registerCurrentMeetingUrlIfNeeded after ensureAccessToken({interactive: false})
\* settled, up to its await of api.registerMeetingUrl
registerAfterToken(s, p, outcome) ==
    LET s1 == [s EXCEPT !.tokenStore = storeAfter(@, outcome)]
        res == StoredResult(outcome)
    IN IF res # "token" THEN registerReturns(s1, p)
       ELSE IF s1.info = Null THEN registerReturns(s1, p)   \* TypeError, caught
       ELSE IF s1.info.recordingId = NULL \/ s1.info.sdkUploadId = NULL
            THEN registerReturns(s1, p)
       ELSE LET s2 == [s1 EXCEPT !.info.lastRegisterAttemptUrl = s.procs[p].url,
                                 !.info.lastRegisterAttemptAt = s.procs[p].now]
            IN Suspend(s2, p, [s.procs[p] EXCEPT !.pc = "regCall"])

\* mutant of registerAfterCall: a rejected api.registerMeetingUrl is not caught
registerAfterCallThrows(s, p, ok) ==
    IF ok /\ s.info # Null
    THEN registerReturns([s EXCEPT !.info.lastRegisteredMeetingUrl = s.procs[p].url], p)
    ELSE IF s.procs[p].kind = "start" THEN startWithAuthCatch(s, p) ELSE Finish(s, p)

\* registerCurrentMeetingUrlIfNeeded after api.registerMeetingUrl settled
registerAfterCall(s, p, ok) ==
    IF ok /\ s.info # Null
    THEN registerReturns([s EXCEPT !.info.lastRegisteredMeetingUrl = s.procs[p].url], p)
    ELSE registerReturns(s, p)

\* startMeetingRecordingWithAuth after getUploadTokenAndStoreInfo returned
startAfterUploadToken(s, p) ==
    IF s.info = Null THEN startWithAuthCatch(s, p)   \* TypeError at line 685
    ELSE registerCurrentMeetingUrlIfNeeded(s, p)

\* getUploadTokenAndStoreInfo up to its await of api.getUploadToken
getUploadTokenAndStoreInfo(s, p) ==
    IF s.info = Null THEN startWithAuthCatch(s, p)
    ELSE IF s.info.uploadToken = NULL
    THEN Suspend([s EXCEPT !.ghost.fetching = @ \cup {p}], p,
                 [s.procs[p] EXCEPT !.pc = "fetch"])
    ELSE startAfterUploadToken(s, p)

\* showUploadTokenErrorDialog up to its await of dialog.showMessageBox
showUploadTokenErrorDialog(s, p, error) ==
    Suspend(s, p, [s.procs[p] EXCEPT !.pc = "dialog", !.dialog = dialogMessage(error)])

\* getUploadTokenAndStoreInfo after api.getUploadToken answered with a body
storeUploadTokenInfo(s, p, data) ==
    LET uploadToken == extractUploadToken(data)
    IN IF uploadToken = NULL
       THEN showUploadTokenErrorDialog(s, p, noUploadTokenError(data))
       ELSE IF s.info = Null THEN startWithAuthCatch(s, p)   \* TypeError at line 1810
       ELSE startAfterUploadToken(
                [s EXCEPT !.info.uploadToken = uploadToken,
                          !.info.recordingId = extractRecordingId(data),
                          !.info.sdkUploadId = extractSdkUploadId(data)], p)

\* getUploadTokenAndStoreInfo after api.getUploadToken threw
uploadTokenFailed(s, p, error) ==
    showUploadTokenErrorDialog(s, p, error)

\* const accessToken = await ensureAccessToken({interactive: true}) gave a token
accessTokenObtained(s, p) == [s EXCEPT !.procs[p].accessToken = TRUE]

\* ensureAccessToken: loginInFlight = (async () => { await login(...) ... })()
startLogin(s) == [s EXCEPT !.loginInFlight = TRUE, !.loginPrompts = @ + 1]

\* ensureAccessToken without the test of loginInFlight
ensureAccessTokenInteractiveUnguarded(s, p, outcome) ==
    LET s1 == [s EXCEPT !.tokenStore = storeAfter(@, outcome)]
        res == StoredResult(outcome)
    IN IF res = "token" THEN getUploadTokenAndStoreInfo(accessTokenObtained(s1, p), p)
       ELSE IF res = "throw" THEN startWithAuthCatch(s1, p)
       ELSE Suspend(startLogin(s1), p, [s.procs[p] EXCEPT !.pc = "login"])

\* ensureAccessToken({interactive: true}) after getStoredAccessToken settled
ensureAccessTokenInteractive(s, p, outcome) ==
    LET s1 == [s EXCEPT !.tokenStore = storeAfter(@, outcome)]
        res == StoredResult(outcome)
    IN IF res = "token" THEN getUploadTokenAndStoreInfo(accessTokenObtained(s1, p), p)
       ELSE IF res = "throw" THEN startWithAuthCatch(s1, p)
       ELSE Suspend(IF s1.loginInFlight THEN s1 ELSE startLogin(s1), p,
                    [s.procs[p] EXCEPT !.pc = "login"])

\* mutant of startAfterLogin: the result of ensureAccessToken is not tested
startAfterLoginUnchecked(s, p, result) ==
    getUploadTokenAndStoreInfo(
        IF result = "token" THEN accessTokenObtained(s, p) ELSE s, p)

\* startMeetingRecordingWithAuth after ensureAccessToken returned from a login
startAfterLogin(s, p, result) ==
    IF result = "token" THEN getUploadTokenAndStoreInfo(accessTokenObtained(s, p), p)
    ELSE startWithAuthCatch(s, p)

\* the first waiter of the set, in slot order
MinOf(ps) == CHOOSE p \in ps : \A q \in ps : p <= q

RECURSIVE resumeLoginWaiters(_, _, _)
resumeLoginWaiters(s, ps, result) ==
    IF ps = {} THEN s
    ELSE resumeLoginWaiters(startAfterLogin(s, MinOf(ps), result),
                            ps \ {MinOf(ps)}, result)

\* mutant of loginSettles: the slot is not cleared when the promise settles
loginSettlesKeepsSlot(s, result) ==
    LET s1 == [s EXCEPT !.loginPrompts = @ - 1,
                        !.tokenStore = IF result = "token" THEN "valid" ELSE @]
    IN resumeLoginWaiters(s1, {p \in Procs : s.procs[p].pc = "login"}, result)

\* the promise loginInFlight settles: its finally clears the slot, then every
\* caller awaiting it resumes
loginSettles(s, result) ==
    LET s1 == [s EXCEPT !.loginInFlight = FALSE, !.loginPrompts = @ - 1,
                        !.tokenStore = IF result = "token" THEN "valid" ELSE @]
    IN resumeLoginWaiters(s1, {p \in Procs : s.procs[p].pc = "login"}, result)

\* startMeetingRecordingWithAuth throws "No meeting information available"
startMeetingRecordingWithAuthThrows(s) == s.info = Null

\* startMeetingRecordingWithAuth up to its await of ensureAccessToken; thrown
\* is what the caller's catch does when it throws at once.
startMeetingRecordingWithAuth(s, src) ==
    IF startMeetingRecordingWithAuthThrows(s) THEN s   \* the caller logs or rejects
    ELSE IF s.isRecording THEN s
    ELSE LET s1 == refreshTrayMenu(closeMeetingPopup(
                       [s EXCEPT !.userWantsToRecord = TRUE]))
         IN Suspend(s1, FreeProc(s1),
                    [NoProc EXCEPT !.kind = "start", !.src = src, !.pc = "authToken"])

\* the handler throws "No meeting information available"
confirmRecordingThrows(s) == s.info = Null

\* mutant of confirmRecording: the session is not tested first
confirmRecordingUnchecked(s) ==
    startMeetingRecordingWithAuth(
        closeMeetingPopup([s EXCEPT !.userWantsToRecord = TRUE]), "popup")

\* ipcMain "meeting-popup:confirm-recording"
confirmRecording(s) ==
    IF confirmRecordingThrows(s) THEN s
    ELSE startMeetingRecordingWithAuth(
             closeMeetingPopup([s EXCEPT !.userWantsToRecord = TRUE]), "popup")

\* ------------------------------------------------------------ actions: confirm
PopupConfirm ==
    /\ meetingPopupWindow
    /\ HasFree(State)
    /\ Step(confirmRecording(State), Ev("confirm", NoWindow, "popup"))

TrayStartRecording ==
    /\ trayMenu.canManualStart
    /\ HasFree(State)
    /\ Step(startMeetingRecordingWithAuth(State, "tray"), Ev("confirm", NoWindow, "tray"))

StoredTokenAnswers(p) ==
    /\ procs[p].pc = "authToken"
    /\ \E o \in StoredOutcomes(tokenStore) :
           Step(ensureAccessTokenInteractive(State, p, o),
                Ev(IF o = "refreshFailed" THEN "authFail" ELSE "storedToken", NoWindow, o))

LoginSettles ==
    /\ loginInFlight
    /\ \E r \in {"token", "null", "throw"} :
           Step(loginSettles(State, r),
                Ev(IF r = "token" THEN "loginOk" ELSE "authFail", NoWindow, r))

UploadTokenAnswers(p, toks, ids) ==
    /\ procs[p].pc = "fetch"
    /\ \/ \E t \in toks, i \in ids, shape \in Shapes :
              Step(storeUploadTokenInfo(State, p, Response(shape, t, i)),
                   IF shape \in {"empty", "detail"} THEN Ev("fetchFail", NoWindow, "noToken")
                   ELSE Ev("fetchOk", NoWindow, t))
       \/ \E status \in FetchErrors, body \in ErrorBodies :
              Step(uploadTokenFailed(State, p, getUploadTokenError(status, body)),
                   Ev("fetchFail", NoWindow, StatusText(status)))

DialogCloses(p) ==
    /\ procs[p].pc = "dialog"
    /\ Step(startWithAuthCatch(State, p), Ev("dialogClosed", NoWindow, ""))

RegisterTokenAnswers(p) ==
    /\ procs[p].pc = "regToken"
    /\ \E o \in StoredOutcomes(tokenStore) :
           Step(registerAfterToken(State, p, o), Ev("registerToken", NoWindow, o))

RegisterCallAnswers(p) ==
    /\ procs[p].pc = "regCall"
    /\ \E ok \in BOOLEAN :
           Step(registerAfterCall(State, p, ok),
                Ev("registerAnswer", NoWindow, IF ok THEN "ok" ELSE "fail"))

EngineStartAnswers(p) ==
    /\ procs[p].pc = "engineStart"
    /\ \E ok \in BOOLEAN :
           Step(startMeetingRecordingResumed(State, p, ok),
                Ev("startAnswer", NoWindow, IF ok THEN "ok" ELSE "fail"))

\* ------------------------------------------------------------ decline, stop, pause
\* ipcMain "meeting-popup:decline-recording"
declineRecording(s) ==
    LET s1 == suppressMeetingPopupForWindow(s, windowIdOf(s))
    IN refreshTrayMenu(closeMeetingPopup(
           [s1 EXCEPT !.userWantsToRecord = FALSE, !.recordingStarted = FALSE]))

\* mutant of stopCleanup: the session is cleared, the two flags are left alone
stopCleanupSessionOnly(s, src) ==
    LET s1 == closeMeetingPopup([SessionGone(s) EXCEPT !.info = Null])
    IN IF src = "debug" THEN setCaptureState(s1, FALSE, FALSE) ELSE s1

\* what the three stop surfaces do once stopMeetingRecording has settled:
\* the finally of the tray click, both branches of the popup handler, the
\* finally of the debug handler
stopCleanup(s, src) ==
    LET s1 == closeMeetingPopup(
                  [SessionGone(s) EXCEPT !.userWantsToRecord = FALSE,
                                         !.recordingStarted = FALSE,
                                         !.info = Null])
    IN IF src = "debug" THEN setCaptureState(s1, FALSE, FALSE) ELSE s1

\* stopMeetingRecording up to its await of RecallAiSdk.stopRecording, called
\* from surface src
stopMeetingRecording(s, src) ==
    IF ~s.isRecording THEN stopCleanup(s, src)
    ELSE IF s.info = Null \/ s.info.windowId = NoWindow
    THEN stopCleanup(setCaptureState(s, FALSE, FALSE), src)
    ELSE Suspend(s, FreeProc(s),
                 [NoProc EXCEPT !.kind = "stop", !.src = src, !.pc = "engineStop",
                                !.windowId = s.info.windowId])

\* mutant of stopMeetingRecordingResumed: an error of the engine other than
\* "Cannot destructure" leaves the capture state as it was
stopMeetingRecordingResumedKeepsState(s, p, outcome) ==
    LET s1 == IF outcome = "error" THEN s ELSE setCaptureState(s, FALSE, FALSE)
    IN Finish(stopCleanup(s1, s.procs[p].src), p)

\* mutant of stopMeetingRecordingResumed: the recording flag is cleared
\* directly, not through setCaptureState
stopMeetingRecordingResumedFlagOnly(s, p, outcome) ==
    LET s1 == refreshTrayMenu([s EXCEPT !.isRecording = FALSE])
    IN Finish(stopCleanup(s1, s.procs[p].src), p)

\* stopMeetingRecording after RecallAiSdk.stopRecording settled: resolved, threw
\* the "Cannot destructure" error, or threw another error
stopMeetingRecordingResumed(s, p, outcome) ==
    LET s1 == setCaptureState(s, FALSE, FALSE)
    IN Finish(stopCleanup(s1, s.procs[p].src), p)

\* tray "Stop Recording" click, ipcMain "debug-controls:stop"
stopRequested(s, src) ==
    stopMeetingRecording(suppressMeetingPopupForWindow(s, windowIdOf(s)), src)

\* ipcMain "meeting-popup:end-recording"
endRecording(s) ==
    IF ~s.isRecording THEN s ELSE stopRequested(s, "popup")

\* ipcMain "debug-controls:stop"
debugStop(s) ==
    IF ~s.isRecording THEN s ELSE stopRequested(s, "debug")

\* pauseMeetingRecording up to its await of RecallAiSdk.pauseRecording
pauseMeetingRecording(s) ==
    IF ~s.isRecording THEN s
    ELSE IF s.isPaused THEN s
    ELSE IF windowIdOf(s) = NoWindow THEN s     \* throws; the caller logs it
    ELSE Suspend(s, FreeProc(s),
                 [NoProc EXCEPT !.kind = "pause", !.pc = "enginePause",
                                !.windowId = s.info.windowId])

\* resumeMeetingRecording up to its await of RecallAiSdk.resumeRecording
resumeMeetingRecording(s) ==
    IF ~s.isRecording THEN s
    ELSE IF ~s.isPaused THEN s
    ELSE IF windowIdOf(s) = NoWindow THEN s     \* throws; the caller logs it
    ELSE Suspend(s, FreeProc(s),
                 [NoProc EXCEPT !.kind = "resume", !.pc = "engineResume",
                                !.windowId = s.info.windowId])

\* tray "Pause Recording" / "Resume Recording" click, ipcMain "debug-controls:toggle-pause"
togglePause(s) ==
    IF s.isPaused THEN resumeMeetingRecording(s) ELSE pauseMeetingRecording(s)

\* mutant of pauseMeetingRecordingResumed: the capture state is set whatever
\* the engine answered
pauseMeetingRecordingResumedAlways(s, p, ok) ==
    Finish(setCaptureState(s, TRUE, TRUE), p)

\* pauseMeetingRecording after RecallAiSdk.pauseRecording settled
pauseMeetingRecordingResumed(s, p, ok) ==
    Finish(IF ok THEN setCaptureState(s, TRUE, TRUE) ELSE s, p)

\* resumeMeetingRecording after RecallAiSdk.resumeRecording settled
resumeMeetingRecordingResumed(s, p, ok) ==
    Finish(IF ok THEN setCaptureState(s, TRUE, FALSE) ELSE s, p)

\* ------------------------------------------------------------ engine events, continued
\* RecallAiSdk "meeting-updated" listener; windowId and meetingUrl may be missing
onMeetingUpdated(s, windowId, meetingUrl) ==
    IF meetingUrl = NULL THEN s
    ELSE IF s.info = Null \/ windowId = NoWindow \/ s.info.windowId # windowId THEN s
    ELSE LET s1 == [s EXCEPT !.info.meetingUrl = meetingUrl]
             p == FreeProc(s1)
         IN IF ~s1.userWantsToRecord THEN s1
            ELSE registerCurrentMeetingUrlIfNeeded(
                     [s1 EXCEPT !.procs[p] = [NoProc EXCEPT !.kind = "update",
                                                            !.src = "sdk"]], p)

\* the popup is told the recording ended and is closed 100 ms later
notifyPopupEnded(s) ==
    IF s.popup THEN [s EXCEPT !.popupCloseTimer = TRUE] ELSE s

\* mutant of onSdkStateChange: idle ends the recording also while paused
onSdkStateChangeIdleEnds(s, code) ==
    CASE code = "recording" ->
           IF ~s.isRecording \/ s.isPaused THEN setCaptureState(s, TRUE, FALSE) ELSE s
      [] code = "idle" ->
           LET s1 == notifyPopupEnded(setCaptureState(s, FALSE, FALSE))
               s2 == clearMeetingPopupSuppression(s1, windowIdOf(s1))
           IN refreshTrayMenu(
                  [SessionGone(s2)
                   EXCEPT !.userWantsToRecord = FALSE,
                          !.recordingStarted = FALSE,
                          !.info = Null])
      [] OTHER -> s

\* RecallAiSdk "sdk-state-change" listener
onSdkStateChange(s, code) ==
    CASE code = "recording" ->
           IF ~s.isRecording \/ s.isPaused THEN setCaptureState(s, TRUE, FALSE) ELSE s
      [] code = "idle" ->
           IF s.isPaused THEN setCaptureState(s, TRUE, TRUE)
           ELSE LET s1 == notifyPopupEnded(setCaptureState(s, FALSE, FALSE))
                    s2 == clearMeetingPopupSuppression(s1, windowIdOf(s1))
                IN refreshTrayMenu(
                       [SessionGone(s2)
                        EXCEPT !.userWantsToRecord = FALSE,
                               !.recordingStarted = FALSE,
                               !.info = Null])
      [] OTHER -> s

\* mutant of onRecordingEnded: the suppression entry is kept
onRecordingEndedKeepsSuppression(s, evtWindowId) ==
    LET s1 == notifyPopupEnded(setCaptureState(s, FALSE, FALSE))
    IN refreshTrayMenu(
           [SessionGone(s1)
            EXCEPT !.userWantsToRecord = FALSE,
                   !.recordingStarted = FALSE,
                   !.info = Null])

\* RecallAiSdk "recording-ended" listener; evtWindowId may be missing
onRecordingEnded(s, evtWindowId) ==
    LET s1 == notifyPopupEnded(setCaptureState(s, FALSE, FALSE))
        endedWindowId == IF evtWindowId # NoWindow THEN evtWindowId ELSE windowIdOf(s1)
        s2 == clearMeetingPopupSuppression(s1, endedWindowId)
    IN refreshTrayMenu(
           [SessionGone(s2)
            EXCEPT !.userWantsToRecord = FALSE,
                   !.recordingStarted = FALSE,
                   !.info = Null])

\* ------------------------------------------------------------ actions: the rest
PopupDecline ==
    /\ meetingPopupWindow
    /\ Step(declineRecording(State), Ev("decline", NoWindow, ""))

PopupEndRecording ==
    /\ meetingPopupWindow
    /\ HasFree(State)
    /\ Step(endRecording(State), Ev("stop", NoWindow, "popup"))

TrayStopRecording ==
    /\ trayMenu.recordingEnabled
    /\ HasFree(State)
    /\ Step(stopRequested(State, "tray"), Ev("stop", NoWindow, "tray"))

DebugStop ==
    /\ isRecording
    /\ HasFree(State)
    /\ Step(debugStop(State), Ev("stop", NoWindow, "debug"))

EngineStopAnswers(p) ==
    /\ procs[p].pc = "engineStop"
    /\ \E o \in StopOutcomes :
           Step(stopMeetingRecordingResumed(State, p, o), Ev("stopAnswer", NoWindow, o))

TrayTogglePause ==
    /\ trayMenu.recordingEnabled
    /\ HasFree(State)
    /\ Step(togglePause(State), Ev("togglePause", NoWindow, "tray"))

DebugTogglePause ==
    /\ isRecording
    /\ HasFree(State)
    /\ Step(togglePause(State), Ev("togglePause", NoWindow, "debug"))

EnginePauseAnswers(p) ==
    /\ procs[p].pc = "enginePause"
    /\ \E ok \in BOOLEAN :
           Step(pauseMeetingRecordingResumed(State, p, ok),
                Ev("pauseAnswer", NoWindow, IF ok THEN "ok" ELSE "fail"))

EngineResumeAnswers(p) ==
    /\ procs[p].pc = "engineResume"
    /\ \E ok \in BOOLEAN :
           Step(resumeMeetingRecordingResumed(State, p, ok),
                Ev("resumeAnswer", NoWindow, IF ok THEN "ok" ELSE "fail"))

MeetingUpdated(windowId, meetingUrl) ==
    /\ HasFree(State)
    /\ Step(onMeetingUpdated(State, windowId, meetingUrl), Ev("updated", windowId, meetingUrl))

SdkStateChange(code) ==
    Step(onSdkStateChange(State, code), Ev("sdk", NoWindow, code))

RecordingEnded(evtWindowId) ==
    Step(onRecordingEnded(State, evtWindowId), Ev("ended", evtWindowId, ""))

\* setTimeout(() => closeMeetingPopup(), 100) fires
PopupCloseTimerFires ==
    /\ popupCloseTimer
    /\ Step(closeMeetingPopup([State EXCEPT !.popupCloseTimer = FALSE]),
            Ev("popupTimer", NoWindow, ""))

\* Date.now() advances.  The clock is read only by
\* registerCurrentMeetingUrlIfNeeded, so its advance is modelled from the first
\* value that a later read can be compared with.
TimeObserved ==
    \/ currentMeetingInfo # Null /\ currentMeetingInfo.lastRegisterAttemptUrl # NULL
    \/ \E p \in Procs : procs[p].pc = "regToken"

Tick ==
    /\ TimeObserved
    /\ clock < ThrottleMs + MaxTicks * TickMs
    /\ Step([State EXCEPT !.clock = @ + TickMs], Ev("tick", NoWindow, ""))

\* the steps of the start sequence suspended at an await, the bodies of the
\* upload-token answers carrying tokens of toks and identifiers of ids
StartResumes(toks, ids) ==
    \/ \E p \in Procs : StoredTokenAnswers(p)
    \/ LoginSettles
    \/ \E p \in Procs : UploadTokenAnswers(p, toks, ids)
    \/ \E p \in Procs : DialogCloses(p)
    \/ \E p \in Procs : EngineStartAnswers(p)

\* the steps of registerCurrentMeetingUrlIfNeeded suspended at an await
RegistrarResumes ==
    \/ \E p \in Procs : RegisterTokenAnswers(p)
    \/ \E p \in Procs : RegisterCallAnswers(p)

Resumes(toks, ids) == StartResumes(toks, ids) \/ RegistrarResumes

\* the user stops or pauses
StopsAndPauses ==
    \/ PopupEndRecording
    \/ TrayStopRecording
    \/ DebugStop
    \/ \E p \in Procs : EngineStopAnswers(p)
    \/ TrayTogglePause
    \/ DebugTogglePause
    \/ \E p \in Procs : EnginePauseAnswers(p)
    \/ \E p \in Procs : EngineResumeAnswers(p)

\* the user answers the consent prompt
Consent ==
    \/ PopupConfirm
    \/ TrayStartRecording
    \/ PopupDecline

\* the engine reports on the meeting of window w
EngineEvents(ws) ==
    \/ \E w \in ws, pf \in Platforms : MeetingDetected(w, pf)
    \/ \E code \in {"recording", "idle", "paused"} : SdkStateChange(code)
    \/ \E w \in ws \cup {NoWindow} : RecordingEnded(w)
    \/ PopupCloseTimerFires

\* Every handler, one meeting window, one URL, one token.
Next ==
    \/ EngineEvents({1})
    \/ \E w \in {1, NoWindow}, u \in {"urlA", NULL} : MeetingUpdated(w, u)
    \/ Consent
    \/ Resumes({"tok1"}, {AllIds, NoIds})
    \/ StopsAndPauses

Spec == Init /\ [][Next]_vars

\* Two meeting windows; the meeting URL is never reported, so that the
\* registrar always returns before its first await.
NextWindows ==
    \/ EngineEvents(Windows)
    \/ \E w \in Windows \cup {NoWindow} : MeetingUpdated(w, NULL)
    \/ Consent
    \/ StartResumes(Tokens, {AllIds})
    \/ StopsAndPauses

SpecWindows == Init /\ [][NextWindows]_vars

\* The registrar: one window, two URLs, the clock, every shape of identifiers.
NextRegistrar ==
    \/ EngineEvents({1})
    \/ \E w \in {1, NoWindow}, u \in Urls \cup {NULL} : MeetingUpdated(w, u)
    \/ Consent
    \/ Resumes({"tok1"}, Ids)
    \/ Tick

SpecRegistrar == Init /\ [][NextRegistrar]_vars

\* One window whose URL is reported, with a stored token that can expire
\* while a start sequence is under way.
NextExpiry ==
    \/ EngineEvents({1})
    \/ MeetingUpdated(1, "urlA")
    \/ Consent
    \/ Resumes({"tok1"}, {AllIds})
    \/ TokenExpires

SpecExpiry == Init /\ [][NextExpiry]_vars

\* The start sequence when every await is settled in the end except the two
\* fetch calls of utils/api.js, which are made without a timeout and without
\* an AbortSignal: nothing in the program settles a fetch the backend leaves
\* unanswered.
NextPending ==
    \/ EngineEvents({1})
    \/ MeetingUpdated(1, "urlA")
    \/ Consent
    \/ Resumes({"tok1"}, {AllIds})

AwaitsSettle ==
    /\ WF_vars(LoginSettles)
    /\ \A p \in Procs :
           /\ WF_vars(StoredTokenAnswers(p))
           /\ WF_vars(DialogCloses(p))
           /\ WF_vars(EngineStartAnswers(p))
           /\ WF_vars(RegisterTokenAnswers(p))

SpecPending == Init /\ [][NextPending]_vars /\ AwaitsSettle

\* The same, the backend answering every request in the end.
SpecAnswered ==
    /\ SpecPending
    /\ \A p \in Procs :
           /\ WF_vars(UploadTokenAnswers(p, {"tok1"}, {AllIds}))
           /\ WF_vars(RegisterCallAnswers(p))

\* The auth:* handlers invoked by the renderer while the stored token ages.
NextAuth ==
    \/ AuthInvoke
    \/ \E p \in Procs : \/ AuthGetAccessTokenAnswers(p)
                        \/ AuthIsAuthenticatedAnswers(p)
                        \/ AuthLogoutAnswers(p)
    \/ TokenExpires

SpecAuth == Init /\ [][NextAuth]_vars

\* C1: in a run that consists only of meeting-detected, meeting-updated,
\* confirm and decline events of one window, with every external call
\* succeeding, the engine's startRecording is called at most once.
C1_StartCalledAtMostOnce == ghost.c1.n <= 1

\* ------------------------------------------------------------ C2
\* C2: during the lifetime of one session object at most one getUploadToken
\* call is outstanding, and an upload token stored in the session is never
\* replaced by another one.  (A new session starts without a token, so a step
\* from one token to a different one stays within one session.)
C2_UploadTokenFetchedOnce ==
    [][/\ Cardinality(ghost'.fetching) <= 1
       /\ (/\ currentMeetingInfo # Null
           /\ currentMeetingInfo.uploadToken # NULL
           /\ currentMeetingInfo' # Null
           /\ currentMeetingInfo'.uploadToken # NULL)
          => currentMeetingInfo'.uploadToken = currentMeetingInfo.uploadToken]_vars

\* ------------------------------------------------------------ C3
\* C3: when a stop that the user invoked from the tray, the prompt or the debug
\* controls while the capture state was Recording or Paused completes, the
\* capture state is Idle, whatever the engine's stopRecording answered.  The
\* stop completes when its handler resumes after the engine's answer, or at
\* once when the handler has no window to stop.
C3_StopEndsIdle ==
    [][(\/ \E p \in Procs : procs[p].kind = "stop" /\ procs'[p].kind # "stop"
        \/ /\ isRecording
           /\ TrayStopRecording \/ PopupEndRecording \/ DebugStop
           /\ \A p \in Procs : procs'[p].kind = "stop" => procs[p].kind = "stop")
       => ~isRecording' /\ ~isPaused']_vars

\* the engine's stopRecording failed with an error and the stop completed
C3_Witness ==
    /\ \E src \in {"tray", "popup"} : ghost.hist = ScenarioStop(1, "tok1", src, "error")
    /\ ~isRecording

\* ------------------------------------------------------------ C4
\* C4: a meeting-detected event of a window whose prompt the user declined,
\* arriving before any idle report or recording-ended event, is ignored: it
\* opens no prompt and leaves the session, the consent, the start latch and the
\* capture state as they were.
C4_DetectedIgnoredAfterDecline ==
    [][\A w \in Windows, pf \in Platforms :
           (w \in ghost.declined /\ MeetingDetected(w, pf))
           => UNCHANGED <<currentMeetingInfo, userWantsToRecord, recordingStarted,
                          isRecording, isPaused, meetingPopupWindow>>]_vars

\* the user declined the prompt of window 2 and the window was detected again
C4_Witness ==
    /\ ghost.hist = ScenarioDeclineDetect(2)
    /\ 2 \in ghost.declined
    /\ ~meetingPopupWindow

\* ------------------------------------------------------------ C5
\* C5: once the user has declined the prompt of window w, the step that handles
\* an idle report of the engine while the recording is not locally paused, or
\* a recording-ended event of window w, leaves w outside the suppression set
\* (so that the next meeting-detected event of w opens a prompt for a fresh
\* session).
C5_SuppressionClearedAfterDecline ==
    [][\A w \in Windows :
           (/\ w \in ghost.declined
            /\ \/ ~isPaused /\ SdkStateChange("idle")
               \/ RecordingEnded(w))
           => w \notin suppressedMeetingWindowIds']_vars

\* ------------------------------------------------------------ C6
\* C6: when the user has stopped the recording of window w from the tray, the
\* prompt or the debug controls, and the engine then reports idle or
\* recording-ended for that meeting, w is no longer in the suppression set.
C6_SuppressionClearedAfterStop ==
    \A w \in Windows, src \in StopSurfaces :
        ghost.hist \in {ScenarioStopIdle(w, "tok1", src), ScenarioStopEnded(w, "tok1", src)}
        => w \notin suppressedMeetingWindowIds

C8_OneRegisterCallPerUrl ==
    [][\A p \in Procs :
           (procs'[p].pc = "regCall" /\ procs[p].pc # "regCall")
           => ~ /\ currentMeetingInfo # Null
                /\ \/ currentMeetingInfo.lastRegisteredMeetingUrl = procs'[p].url
                   \/ /\ currentMeetingInfo.lastRegisterAttemptUrl = procs'[p].url
                      /\ \E q \in Procs \ {p} : /\ procs[q].pc = "regCall"
                                                /\ procs[q].url = procs'[p].url]_vars

\* ------------------------------------------------------------ C9
\* the handler p that passes the dedupe and throttle tests in this step
PassesThrottle(p) == procs'[p].pc = "regToken" /\ procs[p].pc # "regToken"

\* the session has on record an attempt for a URL other than u, made less than
\* ThrottleMs ago, and that URL is not registered
RecentAttemptForOtherUrl(u) ==
    /\ currentMeetingInfo # Null
    /\ currentMeetingInfo.lastRegisterAttemptUrl \notin {NULL, u}
    /\ clock - currentMeetingInfo.lastRegisterAttemptAt < ThrottleMs
    /\ currentMeetingInfo.lastRegisteredMeetingUrl # currentMeetingInfo.lastRegisterAttemptUrl

\* C9 as stated: an invocation for URL B made less than ThrottleMs after an
\* attempt for a different URL A that is not yet registered is throttled: it
\* does not go on to the backend call.
C9_OtherUrlThrottled ==
    [][\A p \in Procs :
           PassesThrottle(p) => ~RecentAttemptForOtherUrl(procs'[p].url)]_vars

\* C9 amended: the throttle is per URL.  An invocation does not pass when an
\* attempt for the same URL was recorded less than ThrottleMs before; a
\* meeting-updated event that reports, for the consented session, a URL B
\* which is not registered passes at once although an attempt for another URL
\* was recorded less than ThrottleMs before.
C9_SameUrlThrottled ==
    [][/\ \A p \in Procs :
              PassesThrottle(p)
              => ~ /\ currentMeetingInfo'.lastRegisterAttemptUrl = procs'[p].url
                   /\ procs'[p].now - currentMeetingInfo'.lastRegisterAttemptAt < ThrottleMs
       /\ \A w \in Windows, u \in Urls :
              (/\ RecentAttemptForOtherUrl(u)
               /\ currentMeetingInfo.windowId = w
               /\ currentMeetingInfo.lastRegisteredMeetingUrl # u
               /\ userWantsToRecord
               /\ MeetingUpdated(w, u))
              => \E p \in Procs : PassesThrottle(p) /\ procs'[p].url = u]_vars

\* an invocation for urlB has passed the tests less than ThrottleMs after an
\* attempt for urlA, which is not registered
C9_Witness ==
    \E p \in Procs :
        /\ procs[p].pc = "regToken"
        /\ procs[p].url = "urlB"
        /\ currentMeetingInfo # Null
        /\ currentMeetingInfo.lastRegisterAttemptUrl = "urlA"
        /\ procs[p].now - currentMeetingInfo.lastRegisterAttemptAt < ThrottleMs
        /\ currentMeetingInfo.lastRegisteredMeetingUrl # "urlA"

\* ------------------------------------------------------------ C10
\* C10: after the run meeting-detected{w, zoom}, confirm, an upload-token
\* answer that carries token tok, a successful engine start and the engine's
\* report "recording", the capture state is Recording and the engine's
\* startRecording was called exactly once, with {windowId: w, uploadToken: tok},
\* for every window w and token tok.
C10_ConfirmedRunRecords ==
    \A w \in Windows, tok \in Tokens :
        ghost.hist = ScenarioRecording(w, tok)
        => /\ isRecording
           /\ ~isPaused
           /\ ghost.calls = <<[windowId |-> w, uploadToken |-> tok]>>

\* the run has been made for window 2 and token tok2
C10_Witness ==
    /\ ghost.hist = ScenarioRecording(2, "tok2")
    /\ isRecording

\* ------------------------------------------------------------ C11
\* C11: a meeting-detected event whose platform is slack opens no prompt and
\* leaves the session, the consent, the start latch, the capture state and
\* the suppression set as they were.
C11_SlackIgnored ==
    [][\A w \in Windows :
           MeetingDetected(w, "slack")
           => UNCHANGED <<currentMeetingInfo, userWantsToRecord, recordingStarted,
                          isRecording, isPaused, suppressedMeetingWindowIds,
                          meetingPopupWindow>>]_vars

\* a slack window was detected as the first event of the run
C11_Witness ==
    /\ ghost.hist = ScenarioSlack(1)
    /\ currentMeetingInfo = Null
    /\ ~meetingPopupWindow

\* ------------------------------------------------------------ C12
\* C12: when the credential fetch of a start sequence has failed and the
\* confirm operation, from the prompt or from the tray, has completed, the
\* consent is reset, the start latch is false, the engine's startRecording was
\* not called, and the session of the window is still the current session.
C12_FetchFailureKeepsSession ==
    \A w \in Windows, src \in ConfirmSurfaces, how \in FetchFailures :
        ghost.hist = ScenarioFetchFails(w, src, how)
        => /\ ~userWantsToRecord
           /\ ~recordingStarted
           /\ ghost.calls = <<>>
           /\ currentMeetingInfo # Null
           /\ currentMeetingInfo.windowId = w


\* C13: a failed upload-token fetch shows the entitlement message when the
\* HTTP status was 403, and the generic message for every other failure
\* (another status, no status, or an answer without a token).
C13_DialogMessageByStatus ==
    \A w \in Windows, src \in ConfirmSurfaces, how \in FetchFailures :
        ghost.hist = SubSeq(ScenarioFetchFails(w, src, how), 1, 3)
        => \A p \in Procs :
               procs[p].pc = "dialog"
               => (procs[p].dialog = "forbidden" <=> how = "403")


\* C14: at most one interactive login is in flight: an interactive
\* ensureAccessToken that reaches the login while one is pending starts no
\* second one, and when the login settles every caller waiting for it leaves
\* with the result of that login: after a failed login every waiting start
\* sequence has ended in its catch, after a successful one every waiting
\* start sequence of a session without upload token has gone on to fetch it.
C14_SingleLoginInFlight ==
    [][/\ loginPrompts' <= 1
       /\ (loginInFlight /\ loginInFlight') => loginPrompts' = loginPrompts
       /\ loginInFlight
          => \A p \in {q \in Procs : procs[q].pc = "login"} :
                 /\ \A r \in {"null", "throw"} :
                        Step(loginSettles(State, r), Ev("authFail", NoWindow, r))
                        => procs'[p] = NoProc /\ ~userWantsToRecord'
                 /\ (/\ currentMeetingInfo # Null
                     /\ currentMeetingInfo.uploadToken = NULL
                     /\ Step(loginSettles(State, "token"), Ev("loginOk", NoWindow, "token")))
                    => procs'[p].pc = "fetch"]_vars
C14_Witness ==
    /\ \A p \in Procs : procs[p].pc = "login"
    /\ loginPrompts = 1


\* C15: a non-interactive ensureAccessToken whose stored token is expired and
\* whose refresh fails clears the stored tokens and returns null to its
\* caller, here the auth:getAccessToken handler; it does not throw.
C15_RefreshFailureReturnsNull ==
    [][\A p \in Procs :
           (/\ tokenStore = "expired"
            /\ tokenStore' = "none"
            /\ AuthGetAccessTokenAnswers(p))
           => authReply'.result = "null"]_vars


\* C16: a meeting-detected event that arrives while the recording state is
\* not idle (recording, paused, or starting: a confirmed start sequence is
\* still in flight) opens no prompt and leaves the session, the consent and
\* recordingStarted unchanged.
C16_DetectedIgnoredUnlessIdle ==
    [][\A w \in Windows :
           (/\ \/ isRecording
               \/ userWantsToRecord /\ \E p \in Procs : procs[p].kind = "start"
            /\ MeetingDetected(w, "zoom"))
           => UNCHANGED <<currentMeetingInfo, userWantsToRecord, recordingStarted,
                          meetingPopupWindow>>]_vars


\* C17: between the meeting-detected of a session and the confirm for it no
\* backend call is issued (no upload-token fetch, no registration of the
\* meeting URL), and a meeting-updated that arrives while the user has not
\* confirmed only stores the URL on the session.
C17_NoBackendCallBeforeConfirm ==
    [][/\ (/\ ghost.hist # Off
           /\ ghost.hist # <<>>
           /\ ghost.hist[Len(ghost.hist)] \in {Ev("detect", w, "zoom") : w \in Windows})
          => \A p \in Procs : procs'[p].pc \in {"fetch", "regCall"}
                               => procs'[p].pc = procs[p].pc
       /\ \A w \in Windows, u \in Urls :
              (~userWantsToRecord /\ MeetingUpdated(w, u))
              => /\ procs' = procs
                 /\ \/ currentMeetingInfo' = currentMeetingInfo
                    \/ currentMeetingInfo' = [currentMeetingInfo EXCEPT !.meetingUrl = u]
                 /\ UNCHANGED <<isRecording, isPaused, userWantsToRecord, recordingStarted,
                                suppressedMeetingWindowIds, meetingPopupWindow,
                                trayMenu, tokenStore>>]_vars


\* C18: when the user's decline of the prompt of window w, or the user's stop
\* of the recording of window w, has completed, w is in the suppression set,
\* the user's consent is withdrawn, the capture state is Idle and there is no
\* current session.
C18_DeclineOrStopClearsSession ==
    \A w \in Windows :
        (\/ ghost.hist = ScenarioDecline(w)
         \/ \E src \in StopSurfaces, o \in StopOutcomes :
                ghost.hist = ScenarioStop(w, "tok1", src, o))
        => /\ w \in suppressedMeetingWindowIds
           /\ ~userWantsToRecord
           /\ ~isRecording /\ ~isPaused
           /\ currentMeetingInfo = Null


\* C19: for each accepted shape of the upload-token response (nested, flat,
\* bare string) the session ends with the canonical triple: uploadToken is the
\* token, recordingId and sdkUploadId are the values the response holds, null
\* only when it holds none; a response without a token fails the start
\* sequence.
C19_CanonicalTriple ==
    [][\A p \in Procs, t \in Tokens, i \in {AllIds, NoIds} :
           (procs[p].pc = "fetch" /\ currentMeetingInfo # Null)
           => /\ \A shape \in {"nested", "flat"} :
                     (/\ Step(storeUploadTokenInfo(State, p, Response(shape, t, i)),
                              Ev("fetchOk", NoWindow, t))
                      /\ currentMeetingInfo' # Null)
                     => /\ currentMeetingInfo'.uploadToken = t
                        /\ currentMeetingInfo'.recordingId = i.recording_id
                        /\ currentMeetingInfo'.sdkUploadId = i.sdk_upload_id
              /\ (/\ Step(storeUploadTokenInfo(State, p, Response("string", t, i)),
                           Ev("fetchOk", NoWindow, t))
                  /\ currentMeetingInfo' # Null)
                 => /\ currentMeetingInfo'.uploadToken = t
                    /\ currentMeetingInfo'.recordingId = NULL
                    /\ currentMeetingInfo'.sdkUploadId = NULL
              /\ \A shape \in {"empty", "detail"} :
                     Step(storeUploadTokenInfo(State, p, Response(shape, t, i)),
                          Ev("fetchFail", NoWindow, "noToken"))
                     => /\ procs'[p].pc = "dialog"
                        /\ currentMeetingInfo' = currentMeetingInfo]_vars


\* C20: registerCurrentMeetingUrlIfNeeded starts no interactive login; when
\* ensureAccessToken gives it no token it returns without a backend call and
\* without an error (a meeting-updated listener ends, a start sequence goes
\* on to the engine call) and leaves lastRegisteredMeetingUrl,
\* lastRegisterAttemptUrl and lastRegisterAttemptAt as they were.
C20_RegisterNeverInteractive ==
    [][\A p \in Procs :
           (procs[p].pc = "regToken" /\ RegisterTokenAnswers(p))
           => /\ loginPrompts' = loginPrompts /\ loginInFlight' = loginInFlight
              /\ procs'[p].pc # "login"
              /\ tokenStore' # "valid"
                 => /\ procs'[p].pc # "regCall"
                    /\ procs[p].kind = "update" => procs'[p] = NoProc
                    /\ (/\ procs[p].kind = "start"
                        /\ currentMeetingInfo # Null
                        /\ currentMeetingInfo.uploadToken # NULL
                        /\ ~recordingStarted)
                       => procs'[p].pc = "engineStart"
                    /\ currentMeetingInfo # Null
                       => /\ currentMeetingInfo' # Null
                          /\ currentMeetingInfo'.lastRegisteredMeetingUrl
                                 = currentMeetingInfo.lastRegisteredMeetingUrl
                          /\ currentMeetingInfo'.lastRegisterAttemptUrl
                                 = currentMeetingInfo.lastRegisterAttemptUrl
                          /\ currentMeetingInfo'.lastRegisterAttemptAt
                                 = currentMeetingInfo.lastRegisterAttemptAt]_vars

\* the meeting-updated listener of a confirmed session asked for a token
\* while the stored one could not be used, and has returned: no call is
\* outstanding and no attempt is recorded
C20_Witness ==
    /\ \E src \in ConfirmSurfaces : ghost.hist = ScenarioConfirmUpdated(1, src, "urlA")
    /\ tokenStore # "valid"
    /\ \A p \in Procs : procs[p].kind # "update"
    /\ userWantsToRecord
    /\ currentMeetingInfo # Null
    /\ currentMeetingInfo.meetingUrl = "urlA"
    /\ currentMeetingInfo.lastRegisterAttemptUrl = NULL


\* C21: while an engine startRecording call is in flight the latch
\* recordingStarted is true, whatever other handlers ran meanwhile, and no
\* two engine startRecording calls are in flight together.
C21_StartLatchHeld ==
    LET inFlight == {p \in Procs : procs[p].pc = "engineStart"}
    IN /\ inFlight # {} => recordingStarted
       /\ Cardinality(inFlight) <= 1


\* C22: a meeting-updated or recording-ended event whose windowId is not the
\* current session's, or that arrives when there is no session, leaves the
\* session, the consent, the latch recordingStarted and the capture state
\* unchanged.
C22_OtherWindowEventsIgnored ==
    [][\A w \in Windows :
           (currentMeetingInfo = Null \/ currentMeetingInfo.windowId # w)
           => /\ \A u \in Urls \cup {NULL} :
                     MeetingUpdated(w, u)
                     => UNCHANGED <<currentMeetingInfo, userWantsToRecord,
                                    recordingStarted, isRecording, isPaused>>
              /\ RecordingEnded(w)
                 => UNCHANGED <<currentMeetingInfo, userWantsToRecord,
                                recordingStarted, isRecording, isPaused>>]_vars


\* C23: an invocation of registerCurrentMeetingUrlIfNeeded that returns
\* early, for lack of an access token or of recordingId or sdkUploadId,
\* leaves lastRegisterAttemptUrl and lastRegisterAttemptAt unchanged; so an
\* invocation for a URL with no attempt on record passes the throttle, and
\* with a token and both identifiers it goes on to the backend call.
C23_EarlyReturnLeavesNoAttempt ==
    [][/\ \A p \in Procs :
              (procs[p].pc = "regToken" /\ currentMeetingInfo # Null
               /\ RegisterTokenAnswers(p))
              => /\ (procs'[p].pc # "regCall" /\ currentMeetingInfo' # Null)
                    => /\ currentMeetingInfo'.lastRegisterAttemptUrl
                              = currentMeetingInfo.lastRegisterAttemptUrl
                       /\ currentMeetingInfo'.lastRegisterAttemptAt
                              = currentMeetingInfo.lastRegisterAttemptAt
                 /\ (/\ tokenStore' = "valid"
                     /\ currentMeetingInfo.recordingId # NULL
                     /\ currentMeetingInfo.sdkUploadId # NULL)
                    => procs'[p].pc = "regCall"
       /\ \A w \in Windows, u \in Urls :
              (/\ currentMeetingInfo # Null
               /\ currentMeetingInfo.windowId = w
               /\ userWantsToRecord
               /\ currentMeetingInfo.lastRegisteredMeetingUrl # u
               /\ currentMeetingInfo.lastRegisterAttemptUrl # u
               /\ MeetingUpdated(w, u))
              => \E p \in Procs : PassesThrottle(p) /\ procs'[p].url = u]_vars

\* the meeting-updated listener asked to register urlA before the upload
\* token answered and has returned; the start sequence, in the same
\* millisecond, has the backend call for urlA in flight
C23_Witness ==
    /\ \E src \in ConfirmSurfaces :
           ghost.hist = ScenarioUpdatedThenFetch(1, src, "urlA", "tok1")
    /\ clock = ThrottleMs
    /\ \E p \in Procs : /\ procs[p].kind = "start"
                        /\ procs[p].pc = "regCall"
                        /\ procs[p].url = "urlA"
                        /\ \A q \in Procs \ {p} : procs[q] = NoProc


\* C24: a pause request is a no-op unless the capture state is Recording and
\* a resume request is a no-op unless it is Paused: it makes no engine call
\* and changes no capture state.  The requests themselves never change the
\* capture state; it becomes Paused only in the step in which an engine
\* pauseRecording call resolves successfully, a resume makes it Recording
\* only when its resumeRecording call resolves successfully, and a failed
\* call leaves it unchanged.
C24_PauseResumeAfterEngine ==
    [][/\ (~isPaused /\ isPaused')
          => \E p \in Procs : procs[p].pc = "enginePause" /\ procs'[p] = NoProc
       /\ (TrayTogglePause \/ DebugTogglePause)
          => /\ UNCHANGED <<isRecording, isPaused>>
             /\ \A p \in Procs :
                    /\ (procs'[p].pc = "enginePause" /\ procs[p].pc # "enginePause")
                       => isRecording /\ ~isPaused
                    /\ (procs'[p].pc = "engineResume" /\ procs[p].pc # "engineResume")
                       => isRecording /\ isPaused
       /\ \A p \in Procs :
              /\ procs[p].pc = "enginePause"
                 => /\ Step(pauseMeetingRecordingResumed(State, p, TRUE),
                            Ev("pauseAnswer", NoWindow, "ok"))
                       => isRecording' /\ isPaused'
                    /\ Step(pauseMeetingRecordingResumed(State, p, FALSE),
                            Ev("pauseAnswer", NoWindow, "fail"))
                       => UNCHANGED <<isRecording, isPaused>>
              /\ procs[p].pc = "engineResume"
                 => /\ Step(resumeMeetingRecordingResumed(State, p, TRUE),
                            Ev("resumeAnswer", NoWindow, "ok"))
                       => isRecording' /\ ~isPaused'
                    /\ Step(resumeMeetingRecordingResumed(State, p, FALSE),
                            Ev("resumeAnswer", NoWindow, "fail"))
                       => UNCHANGED <<isRecording, isPaused>>]_vars

\* a pause has resolved and a resume of the paused recording is in flight
C24_Witness ==
    /\ isRecording /\ isPaused
    /\ currentMeetingInfo # Null
    /\ \E p \in Procs : procs[p].pc = "engineResume"


\* C25: an sdk-state-change idle handled while the capture state is Paused
\* is no termination: the state stays Paused and the session, the consent,
\* the latch recordingStarted and the suppression set are unchanged.
C25_IdleWhilePausedKeepsSession ==
    [][(isPaused /\ SdkStateChange("idle"))
       => /\ isRecording' /\ isPaused'
          /\ UNCHANGED <<currentMeetingInfo, userWantsToRecord, recordingStarted,
                         suppressedMeetingWindowIds>>]_vars

\* the recording of window 1 was paused from the tray and the engine then
\* reported idle
C25_Witness ==
    /\ ghost.hist = ScenarioPausedIdle(1, "tok1")
    /\ isRecording /\ isPaused
    /\ currentMeetingInfo # Null
    /\ currentMeetingInfo.windowId = 1


C27_StartSequenceOrdered ==
    [][\A p \in Procs :
           /\ (procs'[p].kind = "start" /\ procs'[p].pc \notin {"authToken", "login"})
              => procs'[p].accessToken
           /\ (procs'[p].pc = "engineStart" /\ procs[p].pc # "engineStart")
              => /\ currentMeetingInfo' # Null
                 /\ currentMeetingInfo'.uploadToken # NULL
                 /\ procs'[p].uploadToken = currentMeetingInfo'.uploadToken
                 /\ procs'[p].windowId = currentMeetingInfo'.windowId
           /\ (procs[p].pc \in {"authToken", "login"} /\ tokenStore' # "valid")
              => procs'[p].pc \in {"authToken", "login", "none"}]_vars

\* after a login an engine call is in flight with the session's window and
\* upload token
C27_Witness ==
    \E p \in Procs :
        /\ procs[p].pc = "engineStart"
        /\ procs[p].accessToken
        /\ currentMeetingInfo # Null
        /\ procs[p].windowId = currentMeetingInfo.windowId
        /\ procs[p].uploadToken = "tok1"
        /\ currentMeetingInfo.uploadToken = "tok1"


\* C28: when the engine's startRecording call of a confirmed start sequence
\* has failed, the latch recordingStarted is false, the failure has reached
\* the confirm handler (the consent is reset), the capture state is Idle and
\* the session is retained with its upload token; a confirm that follows
\* issues startRecording again with the stored upload token and fetches no
\* second one.
C28_EngineFailureRetryable ==
    \A w \in Windows, src \in ConfirmSurfaces :
        /\ ghost.hist = ScenarioStartFails(w, src, "tok1")
           => /\ ~recordingStarted /\ ~userWantsToRecord
              /\ ~isRecording /\ ~isPaused
              /\ currentMeetingInfo # Null
              /\ currentMeetingInfo.windowId = w
              /\ currentMeetingInfo.uploadToken = "tok1"
        /\ ghost.hist = ScenarioStartRetry(w, src, "tok1")
           => \A p \in Procs :
                  /\ procs[p].pc # "fetch"
                  /\ procs[p].pc = "engineStart"
                     => procs[p].windowId = w /\ procs[p].uploadToken = "tok1"


\* C29: a confirm from the prompt or from the tray invoked while there is no
\* session throws and changes nothing: the consent is not set, the prompt
\* stays as it is, and no login, backend call or engine call is started.
C29_ConfirmWithoutSessionThrows ==
    [][currentMeetingInfo = Null
       => /\ confirmRecordingThrows(State)
          /\ startMeetingRecordingWithAuthThrows(State)
          /\ (PopupConfirm \/ TrayStartRecording)
             => UNCHANGED <<isRecording, isPaused, currentMeetingInfo, userWantsToRecord,
                            recordingStarted, suppressedMeetingWindowIds,
                            meetingPopupWindow, popupCloseTimer, trayMenu,
                            loginInFlight, loginPrompts, tokenStore, procs>>]_vars

\* the prompt of an ended meeting was still open and the user confirmed
C29_Witness ==
    /\ ghost.hist = ScenarioEndedConfirm(1)
    /\ currentMeetingInfo = Null
    /\ ~userWantsToRecord
    /\ \A p \in Procs : procs[p] = NoProc

\* ------------------------------------------------------------ C30
\* C30: a registration that fails inside the start sequence, because the
\* backend call is rejected or because no access token can be obtained without
\* interaction, does not abort the sequence: lastRegisteredMeetingUrl keeps its
\* value, the consent stays, and the sequence goes on to the engine's
\* startRecording whenever startMeetingRecording has a session with an upload
\* token and no start under way.
C30_Proceeds(p) ==
    /\ currentMeetingInfo' # Null
       => currentMeetingInfo'.lastRegisteredMeetingUrl
              = currentMeetingInfo.lastRegisteredMeetingUrl
    /\ (currentMeetingInfo.uploadToken # NULL /\ ~recordingStarted)
       => /\ procs'[p].kind = "start" /\ procs'[p].pc = "engineStart"
          /\ procs'[p].uploadToken = currentMeetingInfo.uploadToken
          /\ recordingStarted'
          /\ userWantsToRecord' = userWantsToRecord
          /\ currentMeetingInfo' # Null

C30_RegistrationFailureDropped ==
    [][currentMeetingInfo # Null
       => \A p \in {q \in Procs : procs[q].kind = "start"} :
              /\ (/\ procs[p].pc = "regCall"
                  /\ Step(registerAfterCall(State, p, FALSE),
                          Ev("registerAnswer", NoWindow, "fail")))
                 => C30_Proceeds(p)
              /\ procs[p].pc = "regToken"
                 => \A o \in {"refreshFailed", "noRefreshToken", "null"} :
                        Step(registerAfterToken(State, p, o), Ev("registerToken", NoWindow, o))
                        => C30_Proceeds(p)]_vars

\* the backend rejected the registration made by the start sequence, which
\* now waits for the engine
C30_Witness ==
    /\ ghost.hist = ScenarioUrlThenStart(1, "urlA", "tok1")
    /\ currentMeetingInfo # Null
    /\ currentMeetingInfo.lastRegisterAttemptUrl = "urlA"
    /\ currentMeetingInfo.lastRegisteredMeetingUrl = NULL
    /\ \E p \in Procs :
           /\ procs[p].kind = "start" /\ procs[p].pc = "engineStart"
           /\ \A q \in Procs \ {p} : procs[q] = NoProc

\* the refresh of the expired token failed inside the registrar, and the start
\* sequence still waits for the engine
C30_TokenWitness ==
    /\ ghost.hist = ScenarioUrlThenStart(1, "urlA", "tok1")
    /\ tokenStore = "none"
    /\ currentMeetingInfo # Null
    /\ currentMeetingInfo.lastRegisterAttemptUrl = NULL
    /\ \E p \in Procs :
           /\ procs[p].kind = "start" /\ procs[p].pc = "engineStart"
           /\ \A q \in Procs \ {p} : procs[q] = NoProc

\* ------------------------------------------------------------ C31
\* C31: a request the backend never answers is treated as failed in the end,
\* so that a confirmed start sequence terminates: consent does not stay
\* accepted forever without a recording.
C31_StartSequenceTerminates ==
    userWantsToRecord ~> (isRecording \/ ~userWantsToRecord)

\* ------------------------------------------------------------ C32
\* C32: when the stored token is expired and its refresh fails, the
\* interactive ensureAccessToken of a start sequence launches the interactive
\* login (the sequence waits for it) instead of failing.
C32_RefreshFailureLaunchesLogin ==
    [][\A p \in {q \in Procs : procs[q].pc = "authToken"} :
           Step(ensureAccessTokenInteractive(State, p, "refreshFailed"),
                Ev("authFail", NoWindow, "refreshFailed"))
           => /\ loginInFlight'
              /\ procs'[p].kind = "start" /\ procs'[p].pc = "login"
              /\ userWantsToRecord']_vars

\* the other outcomes that leave the sequence without a token do launch the
\* login
C32_NoTokenLaunchesLogin ==
    [][\A p \in {q \in Procs : procs[q].pc = "authToken"} :
           \A o \in {"null", "noRefreshToken"} :
               Step(ensureAccessTokenInteractive(State, p, o), Ev("storedToken", NoWindow, o))
               => /\ loginInFlight'
                  /\ procs'[p].kind = "start" /\ procs'[p].pc = "login"]_vars

\* ------------------------------------------------------------ C33
\* C33: a start sequence whose getUploadToken call was made under a session
\* that has since been replaced neither stores the answer's upload token on
\* the session that replaced it nor goes on to the engine's startRecording
\* for that session's window.  (ghost.fetching holds the sequences whose call
\* was made under the current session.)
C33_StaleSequenceActsOnNothing ==
    [][\A p \in {q \in Procs : procs[q].pc = "fetch"} :
           (/\ p \notin ghost.fetching
            /\ currentMeetingInfo # Null
            /\ UploadTokenAnswers(p, Tokens, {AllIds}))
           => /\ currentMeetingInfo' # Null
                 => currentMeetingInfo'.uploadToken = currentMeetingInfo.uploadToken
              /\ procs'[p].pc # "engineStart"]_vars

\* ------------------------------------------------------------ C34
\* C34: whenever the capture state is Recording or Paused there is a current
\* session (so that pause, resume and stop have a windowId).
C34_RecordingHasSession == isRecording => currentMeetingInfo # Null

\* the same for the engine calls alone: a start, pause or resume call that
\* resolves does not set Recording or Paused while there is no session
C34_LateAnswerHasSession ==
    [][(/\ currentMeetingInfo' = Null
        /\ isRecording'
        /\ ~isRecording \/ isPaused' # isPaused)
       => ~\E p \in Procs : \/ EngineStartAnswers(p)
                              \/ EnginePauseAnswers(p)
                              \/ EngineResumeAnswers(p)]_vars

\* ------------------------------------------------------------ C35
\* C35: once the user has declined the session of window w and has not
\* confirmed since, the capture state does not become Recording for it, even
\* when a start sequence was in flight at the time of the decline: after
\* detect, confirm, a second detect, decline, the upload-token answer and
\* the engine's answer, nothing is recorded.
C35_DeclinedNeverRecords ==
    \A w \in Windows, src \in ConfirmSurfaces :
        ghost.hist = ScenarioDeclineInFlight(w, src, "tok1") => ~isRecording

\* ------------------------------------------------------------ C36
\* C36: the cleanup of a failed popup confirm clears only the session the
\* confirm was made for: a session of window w2 detected while the failing
\* start sequence was in flight is still the current session afterwards, its
\* prompt open.
C36_FailedConfirmKeepsNewSession ==
    \A w, w2 \in Windows :
        ghost.hist = ScenarioFailedConfirmReplaced(w, w2)
        => /\ currentMeetingInfo # Null
           /\ currentMeetingInfo.windowId = w2
           /\ meetingPopupWindow

\* the same for the cleanup of a stop from the tray or the prompt: a session
\* detected while the engine's stopRecording was in flight survives it
C36_StopKeepsNewSession ==
    \A w, w2 \in Windows, src \in {"tray", "popup"} :
        ghost.hist = ScenarioStopReplaced(w, w2, src)
        => /\ currentMeetingInfo # Null
           /\ currentMeetingInfo.windowId = w2
           /\ meetingPopupWindow

\* ------------------------------------------------------------ C37
\* C37: a session's lastRegisteredMeetingUrl is set only by a successful
\* registration call issued for that session.  The registrar records its
\* attempt on the session before it issues the call, so a session that holds
\* a registered URL holds an attempt, and the identifiers the call carried.
C37_RegisteredOnlyByOwnCall ==
    (currentMeetingInfo # Null /\ currentMeetingInfo.lastRegisteredMeetingUrl # NULL)
    => /\ currentMeetingInfo.lastRegisterAttemptUrl # NULL
       /\ currentMeetingInfo.recordingId # NULL
       /\ currentMeetingInfo.sdkUploadId # NULL

\* ------------------------------------------------------------ C38
\* C38: in every reachable state without a current session the consent is not
\* accepted and the recordingStarted latch is false.
C38_NoSessionNoConsentNoLatch ==
    currentMeetingInfo = Null => ~userWantsToRecord /\ ~recordingStarted

\* the session was cleared while the engine's startRecording, issued with the
\* consent given and the latch set, was still pending
C38_Witness ==
    /\ currentMeetingInfo = Null
    /\ \E p \in Procs : procs[p].kind = "start" /\ procs[p].pc = "engineStart"

\* the session was cleared by the cleanup of a stop
C38_StopWitness ==
    /\ currentMeetingInfo = Null
    /\ \E src \in StopSurfaces : ghost.hist = ScenarioStop(1, "tok1", src, "ok")

\* ------------------------------------------------------------ C39
\* C39: in every reachable state the paused flag implies the recording flag.
C39_PausedImpliesRecording == isPaused => isRecording

\* the recording was paused from the tray and the engine then reported idle:
\* the state is Paused
C39_Witness ==
    /\ ghost.hist = ScenarioPausedIdle(1, "tok1")
    /\ isPaused /\ isRecording

\* ------------------------------------------------------------ C40
\* C40: when the login in flight settles, with a token, without one or by
\* throwing, the slot loginInFlight is cleared and no call of login is left
\* unsettled; an interactive ensureAccessToken that later finds no stored
\* token, the slot being empty, starts a new login and waits for it.
C40_SettledLoginFreesSlot ==
    [][/\ loginInFlight
          => \A r \in {"token", "null", "throw"} :
                 Step(loginSettles(State, r),
                      Ev(IF r = "token" THEN "loginOk" ELSE "authFail", NoWindow, r))
                 => ~loginInFlight' /\ loginPrompts' = 0
       /\ ~loginInFlight
          => \A p \in {q \in Procs : procs[q].pc = "authToken"} :
                 \A o \in {"null", "noRefreshToken"} :
                     Step(ensureAccessTokenInteractive(State, p, o),
                          Ev("storedToken", NoWindow, o))
                     => /\ loginInFlight' /\ loginPrompts' = loginPrompts + 1
                        /\ procs'[p].pc = "login"]_vars

\* a first login failed, the user confirmed again and a second login is in
\* flight
C40_Witness ==
    /\ ghost.hist = ScenarioLoginRetry(1)
    /\ loginInFlight /\ loginPrompts = 1
    /\ \E p \in Procs : procs[p].kind = "start" /\ procs[p].pc = "login"

====
